---- MODULE Spec2Model ----
(***************************************************************************)
(* Model of anuga/shallow_water/smf.py (find_min, slide_tsunami,           *)
(* slump_tsunami, Double_gaussian) and anuga/operators/base_operator.py    *)
(* (Operator).                                                             *)
(*                                                                         *)
(* Python floats are modelled as decimal fixed-point integers with four    *)
(* fractional digits (the float 1.0 is the integer FxOne).  Every          *)
(* arithmetic operator below rounds towards zero to that resolution, so    *)
(* values agree with the 64-bit float results to about 1e-3 relative, not  *)
(* bit for bit.  The two places where the float format itself decides the  *)
(* control flow are modelled at their IEEE-754 thresholds: exp(-t)         *)
(* underflows to 0.0 for t > 745.1332, cosh(a) raises OverflowError for    *)
(* |a| > 710.4758 and cosh(a)**2 raises it for |a| > 355.58.               *)
(***************************************************************************)
EXTENDS Integers, Sequences, FiniteSets

(* ---------------------------------------------------------------------- *)
(* Fixed-point arithmetic (Python float operators)                        *)
(* ---------------------------------------------------------------------- *)

FxOne == 10000

Abs(a) == IF a < 0 THEN -a ELSE a

Sgn(a) == IF a < 0 THEN -1 ELSE IF a > 0 THEN 1 ELSE 0

Max(a, b) == IF a >= b THEN a ELSE b

Fx(n) == n * FxOne

\* a*b on non-negative operands, split in high and low digits so that no
\* intermediate product exceeds the 32-bit range
MulNN(a, b) ==
    LET ah == a \div FxOne
        al == a % FxOne
        bh == b \div FxOne
        bl == b % FxOne
    IN  ah * bh * FxOne + ah * bl + al * bh + (al * bl) \div FxOne

Mul(a, b) == Sgn(a) * Sgn(b) * MulNN(Abs(a), Abs(b))

\* a/b on non-negative operands by long division, one decimal digit a step
DivNN(a, b) ==
    LET q0 == a \div b
        r0 == a % b
        d1 == (r0 * 10) \div b
        r1 == (r0 * 10) % b
        d2 == (r1 * 10) \div b
        r2 == (r1 * 10) % b
        d3 == (r2 * 10) \div b
        r3 == (r2 * 10) % b
        d4 == (r3 * 10) \div b
    IN  q0 * FxOne + d1 * 1000 + d2 * 100 + d3 * 10 + d4

Div(a, b) == Sgn(a) * Sgn(b) * DivNN(Abs(a), Abs(b))

\* math.sqrt: floor of the square root, by Newton's iteration on integers
RECURSIVE ISqrtIter(_, _)
ISqrtIter(n, x) ==
    LET y == (x + n \div x) \div 2
    IN  IF y >= x THEN x ELSE ISqrtIter(n, y)

ISqrt(n) == IF n <= 0 THEN 0 ELSE ISqrtIter(n, n)

\* sqrt of a fixed-point value; the operand is pre-scaled as far as the
\* 32-bit range allows
Sqrt(a) ==
    IF a < 200000 THEN ISqrt(a * FxOne)
    ELSE IF a < 20000000 THEN ISqrt(a * 100) * 10
    ELSE LET s == ISqrt(a) * 100
         IN  (s + DivNN(a, s)) \div 2

\* e**(-k/8) for k = 0..79
ExpNegTable == <<
    10000, 8825, 7788, 6873, 6065, 5353, 4724, 4169, 3679, 3247,
    2865, 2528, 2231, 1969, 1738, 1534, 1353, 1194, 1054, 930,
    821, 724, 639, 564, 498, 439, 388, 342, 302, 266,
    235, 208, 183, 162, 143, 126, 111, 98, 87, 76,
    67, 59, 52, 46, 41, 36, 32, 28, 25, 22,
    19, 17, 15, 13, 12, 10, 9, 8, 7, 6,
    6, 5, 4, 4, 3, 3, 3, 2, 2, 2,
    2, 1, 1, 1, 1, 1, 1, 1, 1, 1 >>

\* e**(-f) for 0 <= f < 1/8, Taylor series in Horner form
ExpNegFrac(f) ==
    LET h3 == FxOne - f \div 3
        h2 == FxOne - MulNN(f, h3) \div 2
    IN  FxOne - MulNN(f, h2)

\* largest t for which the 64-bit exp(-t) is still positive (745.1332)
ExpUnderflow == 7451332

\* math.exp(-t) for t >= 0: 0.0 past the underflow threshold, otherwise
\* positive (never below the smallest representable step)
ExpNeg(t) ==
    IF t > ExpUnderflow THEN 0
    ELSE IF t >= 10 * FxOne THEN 1
    ELSE Max(1, MulNN(ExpNegTable[(t \div 1250) + 1], ExpNegFrac(t % 1250)))

\* e**n for n = 0..9
ExpPosInt == <<10000, 27183, 73891, 200855, 545982, 1484132, 4034288,
               10966332, 29809580, 81030839>>

\* e**f for 0 <= f < 1
ExpPosFrac(f) ==
    LET h8 == FxOne + f \div 8
        h7 == FxOne + Mul(f, h8) \div 7
        h6 == FxOne + Mul(f, h7) \div 6
        h5 == FxOne + Mul(f, h6) \div 5
        h4 == FxOne + Mul(f, h5) \div 4
        h3 == FxOne + Mul(f, h4) \div 3
        h2 == FxOne + Mul(f, h3) \div 2
    IN  FxOne + Mul(f, h2)

\* math.exp for arguments of either sign (positive ones below 10)
Exp(t) ==
    IF t <= 0 THEN ExpNeg(-t)
    ELSE Mul(ExpPosInt[(t \div FxOne) + 1], ExpPosFrac(t % FxOne))

Ln2 == 6931

\* ln m for 1 <= m < 2: 2*atanh((m-1)/(m+1))
LnMant(m) ==
    LET y == Div(m - FxOne, m + FxOne)
        y2 == Mul(y, y)
        s9 == FxOne \div 9
        s7 == FxOne \div 7 + Mul(y2, s9)
        s5 == FxOne \div 5 + Mul(y2, s7)
        s3 == FxOne \div 3 + Mul(y2, s5)
        s1 == FxOne + Mul(y2, s3)
    IN  2 * Mul(y, s1)

RECURSIVE Ln(_)
\* math.log(a, e) for a > 0
Ln(a) ==
    IF a >= 2 * FxOne THEN Ln2 + Ln(a \div 2)
    ELSE IF a < FxOne THEN Ln(a * 2) - Ln2
    ELSE LnMant(a)

\* a**p for a >= 0 and a positive float exponent p
Pow(a, p) == IF a = 0 THEN 0 ELSE Exp(Mul(p, Ln(a)))

Pi == 31416

\* math.radians
Radians(d) == Mul(d, Pi) \div 180

\* math.sin, Taylor series in Horner form (|r| <= pi)
Sin(r) ==
    LET r2 == Mul(r, r)
        h13 == FxOne - r2 \div 156
        h11 == FxOne - Mul(r2, h13) \div 110
        h9 == FxOne - Mul(r2, h11) \div 72
        h7 == FxOne - Mul(r2, h9) \div 42
        h5 == FxOne - Mul(r2, h7) \div 20
        h3 == FxOne - Mul(r2, h5) \div 6
    IN  Mul(r, h3)

\* math.cos
Cos(r) ==
    LET r2 == Mul(r, r)
        h12 == FxOne - r2 \div 132
        h10 == FxOne - Mul(r2, h12) \div 90
        h8 == FxOne - Mul(r2, h10) \div 56
        h6 == FxOne - Mul(r2, h8) \div 30
        h4 == FxOne - Mul(r2, h6) \div 12
    IN  FxOne - Mul(r2, h4) \div 2

\* math.tan
Tan(r) == Div(Sin(r), Cos(r))

(* ---------------------------------------------------------------------- *)
(* Python values                                                          *)
(* ---------------------------------------------------------------------- *)

\* an unassigned local or a None argument is the empty sequence, a number
\* v is <<v>>
None == <<>>

Some(v) == <<v>>

IsNone(o) == o = <<>>

Val(o) == o[1]

\* a number argument that may be an int or a float (Python 2: '/' between
\* two ints is floor division)
PyInt(n) == [int |-> TRUE, v |-> n * FxOne]

PyFloat(v) == [int |-> FALSE, v |-> v]

\* a / b
PyDiv(a, b) ==
    IF a.int /\ b.int THEN [int |-> TRUE, v |-> (a.v \div b.v) * FxOne]
    ELSE [int |-> FALSE, v |-> Div(a.v, b.v)]

\* a float that may be a NaN: every comparison with a NaN is False
Flt(v) == [nan |-> FALSE, v |-> v]

NaN == [nan |-> TRUE, v |-> 0]

FltGt0(d) == ~d.nan /\ d.v > 0

FltLe0(d) == ~d.nan /\ d.v <= 0

(* ---------------------------------------------------------------------- *)
(* find_min                                                               *)
(* ---------------------------------------------------------------------- *)

step == 500

count_max == 1000000

\* exp(-((u/wa)**2.0)); a quotient of 28 or more squares past the underflow
\* threshold
GaussTerm(u, wa) ==
    IF Abs(u) \div Abs(wa) >= 28 THEN 0
    ELSE LET r == DivNN(Abs(u), Abs(wa))
         IN  ExpNeg(MulNN(r, r))

\* the quantity find_min calls deriv, at x
Deriv(x, x0, wa, kappad, dx) ==
    IF kappad.nan THEN NaN
    ELSE Flt(Mul(x - x0, GaussTerm(x - x0, wa))
             - Mul(Mul(kappad.v, x - dx - x0), GaussTerm(x - dx - x0, wa)))

\* g(x) = exp(-((x-x0)/wa)**2) - kappad*exp(-((x-dx-x0)/wa)**2)
GShape(x, x0, wa, kappad, dx) ==
    GaussTerm(x - x0, wa) - Mul(kappad.v, GaussTerm(x - dx - x0, wa))

\* the locals on entry with xstar given a value before the loop
FindMinFrameAssigned(x0, wa, kappad, dx) ==
    [x0 |-> x0, wa |-> wa, kappad |-> kappad, dx |-> dx,
     x |-> x0 + 50 * FxOne, c |-> 0, deriv |-> Flt(10 * FxOne),
     xstar |-> Some(x0)]

\* the locals of find_min on entry
FindMinFrame(x0, wa, kappad, dx) ==
    [x0 |-> x0, wa |-> wa, kappad |-> kappad, dx |-> dx,
     x |-> x0 + 50 * FxOne, c |-> 0, deriv |-> Flt(10 * FxOne),
     xstar |-> None]

\* the loop condition with deriv >= 0 for deriv > 0
LoopCondNonNegative(f) ==
    f.c < count_max /\ ~f.deriv.nan /\ f.deriv.v >= 0

\* the condition of the while loop
LoopCond(f) == f.c < count_max /\ FltGt0(f.deriv)

\* one pass through the body of the while loop
LoopBody(f) ==
    LET d == Deriv(f.x, f.x0, f.wa, f.kappad, f.dx)
    IN  [f EXCEPT !.deriv = d,
                  !.xstar = IF FltLe0(d) THEN Some(f.x) ELSE @,
                  !.x = @ - step,
                  !.c = @ + 1]

\* etastar = g_xstar*f_ystar with f_ystar = 1.
EtaStar(f) ==
    Mul(GShape(Val(f.xstar), f.x0, f.wa, f.kappad, f.dx), FxOne)

(* ---------------------------------------------------------------------- *)
(* The offset of the second Gaussian                                      *)
(* ---------------------------------------------------------------------- *)

\* the error raised by 2.0*(w*sqrt(-log((zsmall/a3D),e)))/5.0, "" if none
DxError(a3D, zsmall) ==
    IF a3D = 0 THEN "ZeroDivisionError"
    ELSE IF Div(zsmall, a3D) <= 0 THEN "ValueError"
    ELSE IF -Ln(Div(zsmall, a3D)) < 0 THEN "ValueError"
    ELSE ""

DxFormula(w, a3D, zsmall) ==
    Div(Mul(2 * FxOne, Mul(w, Sqrt(-Ln(Div(zsmall, a3D))))), 5 * FxOne)

(* ---------------------------------------------------------------------- *)
(* slide_tsunami                                                          *)
(* ---------------------------------------------------------------------- *)

\* x0, y0 relative to the lower left corner of the domain, when one is given
RelX0(a) == IF IsNone(a.domain) THEN a.x0 ELSE a.x0 - Val(a.domain).xllcorner

RelY0(a) == IF IsNone(a.domain) THEN a.y0 ELSE a.y0 - Val(a.domain).yllcorner

\* width and thickness, set to typical values if not provided: lines 102-107
SlideWidth(a) ==
    IF IsNone(a.width) THEN PyFloat(Mul(2500, a.length.v)) ELSE Val(a.width)

SlideThickness(a) ==
    IF IsNone(a.thickness) THEN PyFloat(Mul(100, a.length.v))
    ELSE Val(a.thickness)

\* sint, tant, tanp: lines 111-113
SlideAngles(a) ==
    [sint |-> Sin(Radians(a.slope.v)),
     tant |-> Tan(Radians(a.slope.v)),
     tanp |-> Tan(Radians(a.psi))]

\* a0 and ut, g being the angles: lines 115-117
SlideMotion(a, g) ==
    LET fr == FxOne - Div(g.tanp, g.tant)
    IN  [a0 |-> Mul(Mul(Mul(a.gravity, g.sint),
                        Div(a.gamma - FxOne, a.gamma + a.massco)), fr),
         ut |-> Sqrt(Mul(Mul(Mul(Mul(a.gravity, a.depth.v),
                                 Div(Mul(a.length.v, g.sint), a.depth.v)),
                             Div(Mul(Pi, a.gamma - FxOne), 2 * a.dragco)),
                         fr))]

\* s0 and w = t0 * sqrt(gravity*depth), m being a0 and ut: lines 118-123
SlideWave(a, m) ==
    [s0 |-> Div(Mul(m.ut, m.ut), m.a0),
     w |-> Mul(Div(m.ut, m.a0), Sqrt(Mul(a.gravity, a.depth.v)))]

\* a2D and a3D: lines 124-128
SlideAmplitudes(a, g, thickness, s0) ==
    LET a2D == Mul(Mul(Mul(Mul(s0, 574 - Mul(431, g.sint)),
                           PyDiv(thickness, a.length).v),
                       Pow(Div(Mul(a.length.v, g.sint), a.depth.v), 12500)),
                   FxOne - Exp(-Mul(22000, a.gamma - FxOne)))
    IN  [a2D |-> a2D,
         a3D |-> Div(a2D, FxOne + Mul(155000,
                                Sqrt(Div(a.depth.v,
                                         Mul(a.length.v, g.sint)))))]

\* the exception one of the formulas raises, "" if none does
SlideError(a, g, m, a3D) ==
    IF g.tant = 0 \/ a.depth.v = 0 \/ a.length.v = 0 \/ m.a0 = 0
      THEN "ZeroDivisionError"
    ELSE DxError(a3D, a.zsmall)

\* the locals, from the wave wv and the amplitudes amp
SlideRecord(a, err, wv, amp) ==
    IF err # "" THEN [err |-> err]
    ELSE [err |-> "", x0 |-> RelX0(a), y0 |-> RelY0(a),
          width |-> SlideWidth(a), thickness |-> SlideThickness(a),
          w |-> wv.w, a2D |-> amp.a2D, a3D |-> amp.a3D,
          dx |-> DxFormula(wv.w, amp.a3D, a.zsmall)]

SlideAmplitudesOf(a, g, m, wv, amp) ==
    SlideRecord(a, SlideError(a, g, m, amp.a3D), wv, amp)

SlideWaveOf(a, g, m, wv) ==
    SlideAmplitudesOf(a, g, m, wv,
                      SlideAmplitudes(a, g, SlideThickness(a), wv.s0))

SlideMotionOf(a, g, m) == SlideWaveOf(a, g, m, SlideWave(a, m))

SlideAnglesOf(a, g) == SlideMotionOf(a, g, SlideMotion(a, g))

\* the locals of slide_tsunami up to the call of find_min; err names the
\* exception one of the formulas raises, "" if none does
SlideLocals(a) == SlideAnglesOf(a, SlideAngles(a))

\* the range checks of slide_tsunami, in the order of the code: the sequence
\* of the parameters found out of range
SlideOutOfRange(a, l) ==
    LET dl == PyDiv(a.depth, a.length).v
        tl == PyDiv(l.thickness, a.length).v
    IN  (IF a.slope.v < 5 * FxOne \/ a.slope.v > 30 * FxOne
           THEN <<"slope">> ELSE <<>>)
        \o (IF dl < 600 \/ dl > 15000 THEN <<"d/b">> ELSE <<>>)
        \o (IF tl < 80 \/ tl > 2000 THEN <<"T/b">> ELSE <<>>)
        \o (IF a.gamma < 14600 \/ a.gamma > 29300 THEN <<"gamma">> ELSE <<>>)

(* ---------------------------------------------------------------------- *)
(* slump_tsunami                                                          *)
(* ---------------------------------------------------------------------- *)

\* thickness and radius, set to typical values if not provided: lines
\* 247-252.  length**2 is divided before it is multiplied, to stay inside
\* the 32-bit range.
SlumpThickness(a) ==
    IF IsNone(a.thickness) THEN PyFloat(Mul(1000, a.length.v))
    ELSE Val(a.thickness)

SlumpRadius(a, thickness) ==
    IF IsNone(a.radius)
      THEN PyFloat(Mul(a.length.v,
                       Div(a.length.v, Mul(80000, thickness.v))))
    ELSE Val(a.radius)

\* s0 and w = t0 * sqrt(gravity*depth): lines 258-265
SlumpWave(a, radius) ==
    [s0 |-> Mul(radius.v, a.dphi) \div 2,
     w |-> Mul(Sqrt(Div(Mul(radius.v, a.gamma + a.massco),
                        Mul(a.gravity, a.gamma - FxOne))),
               Sqrt(Mul(a.gravity, a.depth.v)))]

\* a2D and a3D: lines 266-271
SlumpAmplitudes(a, sint, thickness, radius, s0) ==
    LET a2D ==
          Mul(Mul(Mul(Mul(Mul(Mul(Mul(s0, Div(1310, sint)),
                                  PyDiv(thickness, a.length).v),
                              Pow(Div(Mul(a.length.v, sint), a.depth.v),
                                  12500)),
                          Pow(PyDiv(a.length, radius).v, 6300)),
                      Pow(a.dphi, 3900)),
                  14700 - Mul(3500, a.gamma - FxOne)),
              a.gamma - FxOne)
    IN  [a2D |-> a2D,
         a3D |-> Div(a2D, FxOne + Mul(20600,
                                      Sqrt(PyDiv(a.depth, a.length).v)))]

\* the exception one of the formulas raises, "" if none does
SlumpError(a, sint, thickness, radius, a3D) ==
    IF thickness.v = 0 \/ sint = 0 \/ a.depth.v = 0 \/ a.length.v = 0
          \/ radius.v = 0 \/ a.gamma = FxOne
      THEN "ZeroDivisionError"
    ELSE DxError(a3D, a.zsmall)

\* the locals, from the wave wv and the amplitudes amp
SlumpRecord(a, err, thickness, radius, wv, amp) ==
    IF err # "" THEN [err |-> err]
    ELSE [err |-> "", x0 |-> RelX0(a), y0 |-> RelY0(a),
          width |-> IF IsNone(a.width) THEN a.length ELSE Val(a.width),
          thickness |-> thickness, radius |-> radius,
          w |-> wv.w, a2D |-> amp.a2D, a3D |-> amp.a3D,
          dx |-> DxFormula(wv.w, amp.a3D, a.zsmall)]

SlumpAmplitudesOf(a, sint, thickness, radius, amp) ==
    SlumpRecord(a, SlumpError(a, sint, thickness, radius, amp.a3D),
                thickness, radius, SlumpWave(a, radius), amp)

SlumpRadiusOf(a, sint, thickness, radius) ==
    SlumpAmplitudesOf(a, sint, thickness, radius,
                      SlumpAmplitudes(a, sint, thickness, radius,
                                      SlumpWave(a, radius).s0))

SlumpThicknessOf(a, thickness) ==
    SlumpRadiusOf(a, Sin(Radians(a.slope.v)), thickness,
                  SlumpRadius(a, thickness))

\* the locals of slump_tsunami up to the call of find_min
SlumpLocals(a) == SlumpThicknessOf(a, SlumpThickness(a))

\* the range checks of slump_tsunami
SlumpOutOfRange(a, l) ==
    LET dl == PyDiv(a.depth, a.length).v
        tl == PyDiv(l.thickness, a.length).v
        rl == PyDiv(l.radius, a.length).v
    IN  (IF a.slope.v < 10 * FxOne \/ a.slope.v > 30 * FxOne
           THEN <<"slope">> ELSE <<>>)
        \o (IF dl < 3400 \/ dl > 5000 THEN <<"d/b">> ELSE <<>>)
        \o (IF tl < 1000 \/ tl > 1500 THEN <<"T/b">> ELSE <<>>)
        \o (IF rl < FxOne \/ rl > 2 * FxOne THEN <<"R/b">> ELSE <<>>)
        \o (IF a.dphi < 1000 \/ a.dphi > 5200 THEN <<"del_phi">> ELSE <<>>)
        \o (IF a.gamma < 14600 \/ a.gamma > 29300 THEN <<"gamma">> ELSE <<>>)

\* what a call prints: the warnings, and only if verbose is True
Warnings(verbose, outOfRange) == IF verbose THEN outOfRange ELSE <<>>

\* scale with a3D*nmin for a3D/nmin
ScaleTimes(a, l, nmin) ==
    IF IsNone(a.scale) THEN Mul(l.a3D, nmin) ELSE Val(a.scale)

\* scale as the caller gave it, a3D/nmin if it was left None
Scale(a, l, nmin) == IF IsNone(a.scale) THEN Div(l.a3D, nmin) ELSE Val(a.scale)

(* ---------------------------------------------------------------------- *)
(* Double_gaussian                                                        *)
(* ---------------------------------------------------------------------- *)

\* the exception __init__ raises, "" if none
InitError(a3D, wavelength, zsmall, dx) ==
    IF IsNone(dx) THEN DxError(a3D, zsmall) ELSE ""

\* __init__ leaving dx as it was passed, to be resolved later
DoubleGaussianLazy(a3D, wavelength, width, x0, y0, alpha, kappa, kappad, zsmall, dx, scale) ==
    [a3D |-> a3D, wavelength |-> wavelength, width |-> width,
     x0 |-> x0, y0 |-> y0, alpha |-> alpha, kappa |-> kappa,
     kappad |-> kappad, scale |-> scale, dx |-> dx]

\* the fields of the object after __init__
DoubleGaussian(a3D, wavelength, width, x0, y0, alpha, kappa, kappad, zsmall, dx, scale) ==
    [a3D |-> a3D, wavelength |-> wavelength, width |-> width,
     x0 |-> x0, y0 |-> y0, alpha |-> alpha, kappa |-> kappa,
     kappad |-> kappad, scale |-> scale,
     dx |-> IF IsNone(dx) THEN Some(DxFormula(wavelength, a3D, zsmall))
            ELSE dx]

\* largest |a| for which cosh(a) is a 64-bit float (710.4758)
CoshOverflow == 7104758

\* largest |a| for which cosh(a)**2 is a 64-bit float (355.5845)
SquareOverflow == 3555845

\* 1/cosh(a)**2 = 4e**(-2|a|)/(1 + e**(-2|a|))**2, for |a| <= SquareOverflow
Sech2(a) ==
    LET e2 == ExpNeg(2 * Abs(a))
    IN  DivNN(4 * e2, MulNN(FxOne + e2, FxOne + e2))

\* the argument of cosh at the point (x, y): kappa*(yr-y0)/(wi+wa)
CoshArg(o, x, y) ==
    LET cosa == Cos(Radians(o.alpha))
        sina == Sin(Radians(o.alpha))
        yr == (Mul(x - o.x0, sina) + Mul(y - o.y0, cosa)) + o.y0
    IN  Div(Mul(o.kappa, yr - o.y0), o.width + o.wavelength)

\* the evaluation of the point raises OverflowError, in cosh or in **2
Overflows(o, x, y) ==
    LET a == Abs(CoshArg(o, x, y))
    IN  a > CoshOverflow \/ a > SquareOverflow

\* the value the formula assigns to z[i] at the point (x, y)
ZValue(o, x, y) ==
    LET cosa == Cos(Radians(o.alpha))
        sina == Sin(Radians(o.alpha))
        xr == (Mul(x - o.x0, cosa) - Mul(y - o.y0, sina)) + o.x0
    IN  Mul(Mul(-o.scale, Sech2(CoshArg(o, x, y))),
            GShape(xr, o.x0, o.wavelength, o.kappad, Val(o.dx)))

RECURSIVE EvalLoopAbort(_, _, _, _, _)
\* the loop with the OverflowError caught outside it: the first overflow
\* ends the loop
EvalLoopAbort(o, x, y, i, z) ==
    IF i > Len(x) THEN z
    ELSE IF Overflows(o, x[i], y[i]) THEN z
    ELSE EvalLoopAbort(o, x, y, i + 1,
                       [z EXCEPT ![i] = ZValue(o, x[i], y[i])])

RECURSIVE EvalLoop(_, _, _, _, _)
\* the loop over i of __call__, from index i on, z being the array so far:
\* an OverflowError is caught inside the loop and leaves z[i] as it is
EvalLoop(o, x, y, i, z) ==
    IF i > Len(x) THEN z
    ELSE IF Overflows(o, x[i], y[i]) THEN EvalLoop(o, x, y, i + 1, z)
    ELSE EvalLoop(o, x, y, i + 1, [z EXCEPT ![i] = ZValue(o, x[i], y[i])])

\* __call__(x, y) for len(x) = len(y): z = zeros(N), then the loop
Evaluate(o, x, y) == EvalLoop(o, x, y, 1, [i \in 1..Len(x) |-> 0])

(* ---------------------------------------------------------------------- *)
(* Operator (base_operator.py)                                            *)
(* ---------------------------------------------------------------------- *)

\* Operator.__parallel_safe, for an operator of the given class.  The name
\* is private to Operator, so a subclass cannot override what __init__ calls.
ParallelSafe(kind) == TRUE

\* domain.set_fractional_step_operator(self): the domain keeps the operator
RegisterOperator(d, o) == [d EXCEPT !.operators = Append(@, o)]

(* ---------------------------------------------------------------------- *)
(* The calls a client makes                                               *)
(* ---------------------------------------------------------------------- *)

MaxPoints == 2

MaxOps == 2

MaxProc == 3

\* an int or a float argument of the same value
Num(int, n) == IF int THEN PyInt(n) ELSE PyFloat(n * FxOne)

OptNum(int, n) == IF n = 0 THEN None ELSE Some(Num(int, n))

\* slide_tsunami(length, depth, slope) with every other argument at its
\* default
SlideArgs(length, depth, slope) ==
    [length |-> length, depth |-> depth, slope |-> slope,
     width |-> None, thickness |-> None,
     x0 |-> 0, y0 |-> 0, alpha |-> 0,
     gravity |-> 98000, gamma |-> 18500,
     massco |-> FxOne, dragco |-> FxOne, psi |-> 0,
     dx |-> None, kappa |-> 3 * FxOne, kappad |-> Flt(8000), zsmall |-> 100,
     scale |-> None, domain |-> None, verbose |-> FALSE]

\* slump_tsunami(length, depth, slope) with every other argument at its
\* default
SlumpArgs(length, depth, slope) ==
    [length |-> length, depth |-> depth, slope |-> slope,
     width |-> None, thickness |-> None, radius |-> None, dphi |-> 4800,
     x0 |-> 0, y0 |-> 0, alpha |-> 0,
     gravity |-> 98000, gamma |-> 18500,
     massco |-> FxOne, dragco |-> FxOne,
     dx |-> None, kappa |-> 3 * FxOne, kappad |-> Flt(FxOne), zsmall |-> 100,
     scale |-> None, domain |-> None, verbose |-> FALSE]

\* length, depth, slope, thickness (0: left None), gamma
SlideGeometries ==
    { <<1000, 100, 20, 0, 18500>>,
      <<100, 10, 40, 0, 18500>>,
      <<100, 10, 20, 30, 18500>>,
      <<100, 10, 20, 0, 30000>>,
      <<10, 1, 20, 0, 18500>> }

\* length, depth, slope, thickness, radius (0: left None), dphi
SlumpGeometries ==
    { <<1000, 400, 20, 0, 0, 4800>>,
      <<100, 60, 20, 0, 0, 4800>>,
      <<100, 40, 5, 20, 0, 4800>>,
      <<100, 40, 20, 0, 250, 6000>> }

SlideCalls ==
    { [op |-> "slide_tsunami",
       a |-> [SlideArgs(Num(int, g[1]), Num(int, g[2]), Num(int, g[3]))
                EXCEPT !.thickness = OptNum(int, g[4]), !.gamma = g[5],
                       !.verbose = vb]] :
        g \in SlideGeometries, int \in BOOLEAN, vb \in BOOLEAN }
    \cup
    { [op |-> "slide_tsunami",
       a |-> [SlideArgs(PyFloat(Fx(100)), PyFloat(Fx(10)), PyFloat(Fx(20)))
                EXCEPT !.dx = v[1], !.scale = v[2], !.domain = v[3],
                       !.x0 = Fx(30), !.kappad = v[4]]] :
        v \in { <<Some(Fx(100)), None, None, Flt(8000)>>,
                <<None, Some(FxOne), None, Flt(8000)>>,
                <<None, None,
                  Some([xllcorner |-> Fx(20), yllcorner |-> Fx(5)]),
                  Flt(8000)>>,
                <<None, None, None, NaN>> } }

SlumpCalls ==
    { [op |-> "slump_tsunami",
       a |-> [SlumpArgs(Num(int, g[1]), Num(int, g[2]), Num(int, g[3]))
                EXCEPT !.thickness = OptNum(int, g[4]),
                       !.radius = OptNum(int, g[5]), !.dphi = g[6],
                       !.verbose = vb]] :
        g \in SlumpGeometries, int \in BOOLEAN, vb \in BOOLEAN }
    \cup
    { [op |-> "slump_tsunami",
       a |-> [SlumpArgs(PyFloat(Fx(100)), PyFloat(Fx(40)), PyFloat(Fx(20)))
                EXCEPT !.dx = v[1], !.scale = v[2]]] :
        v \in { <<Some(Fx(100)), None>>, <<None, Some(FxOne)>> } }

\* find_min(x0, wa, kappad, dx) called on its own
FindMinCalls ==
    { [op |-> "find_min",
       a |-> [x0 |-> x0, wa |-> wa, kappad |-> Flt(0), dx |-> 0]] :
        x0 \in {0, Fx(10)}, wa \in {FxOne, 2 * FxOne, Fx(100)} }
    \cup
    { [op |-> "find_min",
       a |-> [x0 |-> 0, wa |-> Fx(100), kappad |-> kd, dx |-> Fx(200)]] :
        kd \in {Flt(8000), NaN} }

\* a call of find_min whose derivative stays positive for every iteration
CapCalls ==
    { [op |-> "find_min",
       a |-> [x0 |-> 0, wa |-> Fx(20000), kappad |-> Flt(3 * FxOne),
              dx |-> Fx(100)]] }

\* Double_gaussian(...) constructed directly
ConstructorCalls ==
    { [op |-> "Double_gaussian",
       a |-> [a3D |-> FxOne, wavelength |-> Fx(10), width |-> Fx(5),
              x0 |-> Fx(3), y0 |-> Fx(1), alpha |-> alpha,
              kappa |-> 3 * FxOne, kappad |-> Flt(8000), zsmall |-> zsmall,
              dx |-> dx, scale |-> 2 * FxOne]] :
        alpha \in {0, Fx(90)}, zsmall \in {100, 2 * FxOne},
        dx \in {None, Some(Fx(4))} }

\* Operator(domain) constructed on a domain of numproc processors
OperatorCalls ==
    { [op |-> "Operator", numproc |-> n] : n \in 1..MaxProc }

Calls ==
    SlideCalls \cup SlumpCalls \cup FindMinCalls \cup ConstructorCalls
        \cup OperatorCalls

\* the calls of a client that also runs into the iteration cap of find_min
CapSuite ==
    CapCalls \cup FindMinCalls \cup ConstructorCalls \cup OperatorCalls
        \cup { c \in SlideCalls \cup SlumpCalls :
                   c.a.length = PyFloat(Fx(100)) /\ ~c.a.verbose }

\* the arguments a client passes to determineDX
ZSmalls == {1000, 2 * FxOne}

SeqsUpTo(S, n) == UNION { [1..k -> S] : k \in 0..n }

(* ---------------------------------------------------------------------- *)
(* State                                                                  *)
(* ---------------------------------------------------------------------- *)

VARIABLES
    call,    \* the call the client makes: its name and its arguments
    pc,      \* "start", "find_min" (in its loop), "scale" (find_min has
             \* returned into slide_tsunami or slump_tsunami), "idle"
    fm,      \* the locals of find_min, None before it is entered
    loc,     \* the locals of slide_tsunami or slump_tsunami
    nmin,    \* what find_min returned into slide_tsunami or slump_tsunami
    res,     \* how the latest operation ended
    out,     \* the warnings printed
    ev,      \* the fields of the Double_gaussian object, None if there is none
    pts,     \* the arguments x, y of the latest operation, if a __call__
    z,       \* what the latest operation returned, if a __call__
    domain   \* the domain of the operators: numproc and its operators

vars == <<call, pc, fm, loc, nmin, res, out, ev, pts, z, domain>>

Returned(op, v) == [op |-> op, kind |-> "returned", err |-> "", v |-> v]

Raised(op, err) == [op |-> op, kind |-> "raised", err |-> err, v |-> None]

InitWith(calls) ==
    /\ call \in calls
    /\ pc = "start"
    /\ fm = None
    /\ loc = None
    /\ nmin = None
    /\ res = [op |-> "", kind |-> "none", err |-> "", v |-> None]
    /\ out = <<>>
    /\ ev = None
    /\ pts = [x |-> <<>>, y |-> <<>>]
    /\ z = <<>>
    /\ domain = [numproc |-> IF call.op = "Operator" THEN call.numproc ELSE 1,
                 operators |-> <<>>]

Init == InitWith(Calls)

InitCap == InitWith(CapSuite)

(* ---------------------------------------------------------------------- *)
(* Actions                                                                *)
(* ---------------------------------------------------------------------- *)

\* find_min called on its own: lines 63-69
FindMinEnter ==
    /\ pc = "start"
    /\ call.op = "find_min"
    /\ fm' = FindMinFrame(call.a.x0, call.a.wa, call.a.kappad, call.a.dx)
    /\ pc' = "find_min"
    /\ UNCHANGED <<call, loc, nmin, res, out, ev, pts, z, domain>>

\* one iteration of the while loop: lines 71-77
FindMinIter ==
    /\ pc = "find_min"
    /\ LoopCond(fm)
    /\ fm' = LoopBody(fm)
    /\ UNCHANGED <<call, pc, loc, nmin, res, out, ev, pts, z, domain>>

\* the loop has ended and xstar is assigned: lines 79-83
FindMinReturn ==
    /\ pc = "find_min"
    /\ ~LoopCond(fm)
    /\ ~IsNone(fm.xstar)
    /\ IF call.op = "find_min"
         THEN /\ res' = Returned("find_min", Some(EtaStar(fm)))
              /\ pc' = "idle"
              /\ nmin' = nmin
         ELSE /\ nmin' = Some(EtaStar(fm))
              /\ pc' = "scale"
              /\ res' = res
    /\ UNCHANGED <<call, fm, loc, out, ev, pts, z, domain>>

\* the loop has ended and xstar was never assigned: line 79 raises, and the
\* error passes through slide_tsunami and slump_tsunami
FindMinUnbound ==
    /\ pc = "find_min"
    /\ ~LoopCond(fm)
    /\ IsNone(fm.xstar)
    /\ res' = Raised(call.op, "UnboundLocalError")
    /\ pc' = "idle"
    /\ UNCHANGED <<call, fm, loc, nmin, out, ev, pts, z, domain>>

\* slide_tsunami up to its call of find_min: lines 95-134
SlideEnter ==
    /\ pc = "start"
    /\ call.op = "slide_tsunami"
    /\ \E l \in {SlideLocals(call.a)} :
           IF l.err # ""
             THEN /\ res' = Raised("slide_tsunami", l.err)
                  /\ pc' = "idle"
                  /\ UNCHANGED <<fm, loc>>
             ELSE /\ loc' = Some(l)
                  /\ fm' = FindMinFrame(l.x0, l.w, call.a.kappad, l.dx)
                  /\ pc' = "find_min"
                  /\ res' = res
    /\ UNCHANGED <<call, nmin, out, ev, pts, z, domain>>

\* slide_tsunami after find_min: lines 136-175
SlideFinish ==
    /\ pc = "scale"
    /\ call.op = "slide_tsunami"
    /\ LET a == call.a
           l == Val(loc)
       IN  IF IsNone(a.scale) /\ Val(nmin) = 0
             THEN /\ res' = Raised("slide_tsunami", "ZeroDivisionError")
                  /\ UNCHANGED <<out, ev>>
             ELSE /\ out' = Warnings(a.verbose, SlideOutOfRange(a, l))
                  /\ ev' = Some(DoubleGaussian(l.a3D, l.w, l.width.v, l.x0,
                                               l.y0, a.alpha, a.kappa,
                                               a.kappad, a.zsmall, Some(l.dx),
                                               Scale(a, l, Val(nmin))))
                  /\ res' = Returned("slide_tsunami", None)
    /\ pc' = "idle"
    /\ UNCHANGED <<call, fm, loc, nmin, pts, z, domain>>

\* slump_tsunami up to its call of find_min: lines 236-277
SlumpEnter ==
    /\ pc = "start"
    /\ call.op = "slump_tsunami"
    /\ \E l \in {SlumpLocals(call.a)} :
           IF l.err # ""
             THEN /\ res' = Raised("slump_tsunami", l.err)
                  /\ pc' = "idle"
                  /\ UNCHANGED <<fm, loc>>
             ELSE /\ loc' = Some(l)
                  /\ fm' = FindMinFrame(l.x0, l.w, call.a.kappad, l.dx)
                  /\ pc' = "find_min"
                  /\ res' = res
    /\ UNCHANGED <<call, nmin, out, ev, pts, z, domain>>

\* slump_tsunami after find_min: lines 279-329
SlumpFinish ==
    /\ pc = "scale"
    /\ call.op = "slump_tsunami"
    /\ LET a == call.a
           l == Val(loc)
       IN  IF IsNone(a.scale) /\ Val(nmin) = 0
             THEN /\ res' = Raised("slump_tsunami", "ZeroDivisionError")
                  /\ UNCHANGED <<out, ev>>
             ELSE /\ out' = Warnings(a.verbose, SlumpOutOfRange(a, l))
                  /\ ev' = Some(DoubleGaussian(l.a3D, l.w, l.width.v, l.x0,
                                               l.y0, a.alpha, a.kappa,
                                               a.kappad, a.zsmall, Some(l.dx),
                                               Scale(a, l, Val(nmin))))
                  /\ res' = Returned("slump_tsunami", None)
    /\ pc' = "idle"
    /\ UNCHANGED <<call, fm, loc, nmin, pts, z, domain>>

\* Double_gaussian.__init__ called by the client: lines 360-375
Construct ==
    /\ pc = "start"
    /\ call.op = "Double_gaussian"
    /\ LET a == call.a
       IN  IF InitError(a.a3D, a.wavelength, a.zsmall, a.dx) # ""
             THEN /\ res' = Raised("Double_gaussian",
                                   InitError(a.a3D, a.wavelength, a.zsmall,
                                             a.dx))
                  /\ ev' = ev
             ELSE /\ ev' = Some(DoubleGaussian(a.a3D, a.wavelength, a.width,
                                               a.x0, a.y0, a.alpha, a.kappa,
                                               a.kappad, a.zsmall, a.dx,
                                               a.scale))
                  /\ res' = Returned("Double_gaussian", None)
    /\ pc' = "idle"
    /\ UNCHANGED <<call, fm, loc, nmin, out, pts, z, domain>>

\* the points a client evaluates at: the origin, the point find_min
\* selected (a point 5 further where find_min did not run), and a point far
\* away across the slope
Points ==
    LET o == Val(ev)
    IN  { <<o.x0, o.y0>>,
          <<IF IsNone(fm) THEN o.x0 + Fx(5) ELSE Val(fm.xstar), o.y0>>,
          <<o.x0, o.y0 + Fx(4000)>> }

\* the sequences of up to n different elements of S
DistinctSeqs(S, n) ==
    { p \in SeqsUpTo(S, n) :
        \A i, j \in 1..Len(p) : p[i] = p[j] => i = j }

\* the arguments x, y a client passes: the coordinates of up to MaxPoints
\* different points, and one pair of unequal lengths
CallArgs ==
    { [x |-> [i \in 1..Len(p) |-> p[i][1]], y |-> [i \in 1..Len(p) |-> p[i][2]]] :
        p \in DistinctSeqs(Points, MaxPoints) }
    \cup { [x |-> <<Val(ev).x0>>, y |-> <<>>] }

\* Double_gaussian.__call__(x, y): lines 385-428
EvCall ==
    /\ pc = "idle"
    /\ ~IsNone(ev)
    /\ \E a \in CallArgs :
         /\ pts' = a
         /\ IF Len(a.x) # Len(a.y)
              THEN /\ res' = Raised("__call__", "AssertionError")
                   /\ z' = <<>>
              ELSE /\ z' = Evaluate(Val(ev), a.x, a.y)
                   /\ res' = Returned("__call__", None)
    /\ UNCHANGED <<call, pc, fm, loc, nmin, out, ev, domain>>

\* Double_gaussian.determineDX(zsmall): lines 444-451
DetermineDX ==
    /\ pc = "idle"
    /\ ~IsNone(ev)
    /\ \E zsmall \in ZSmalls :
         LET o == Val(ev)
         IN  IF DxError(o.a3D, zsmall) # ""
               THEN /\ res' = Raised("determineDX", DxError(o.a3D, zsmall))
                    /\ ev' = ev
               ELSE /\ ev' = Some([o EXCEPT !.dx =
                                     Some(DxFormula(o.wavelength, o.a3D,
                                                    zsmall))])
                    /\ res' = Returned("determineDX",
                                       Some(DxFormula(o.wavelength, o.a3D,
                                                      zsmall)))
    /\ pts' = [x |-> <<>>, y |-> <<>>]
    /\ z' = <<>>
    /\ UNCHANGED <<call, pc, fm, loc, nmin, out, domain>>

\* Operator.__init__(domain) of Operator itself or of a subclass: lines 10-18.
\* An operator whose assertion fails stays registered with the domain, with
\* neither logging nor logging_file set.
OperatorInit ==
    /\ call.op = "Operator"
    /\ Len(domain.operators) < MaxOps
    /\ \E kind \in {"Operator", "subclass"} :
         IF domain.numproc > 1 /\ ~ParallelSafe(kind)
           THEN /\ domain' = RegisterOperator(domain,
                                 [kind |-> kind, logging |-> None])
                /\ res' = Raised("Operator", "AssertionError")
           ELSE /\ domain' = RegisterOperator(domain,
                                 [kind |-> kind, logging |-> Some(FALSE)])
                /\ res' = Returned("Operator", None)
    /\ pc' = "idle"
    /\ UNCHANGED <<call, fm, loc, nmin, out, ev, pts, z>>

\* Operator.__call__: lines 20-23
OperatorCall ==
    /\ call.op = "Operator"
    /\ \E i \in 1..Len(domain.operators) :
         ~IsNone(domain.operators[i].logging)
    /\ res' = Raised("Operator.__call__", "Exception")
    /\ UNCHANGED <<call, pc, fm, loc, nmin, out, ev, pts, z, domain>>

Next ==
    \/ FindMinEnter
    \/ FindMinIter
    \/ FindMinReturn
    \/ FindMinUnbound
    \/ SlideEnter
    \/ SlideFinish
    \/ SlumpEnter
    \/ SlumpFinish
    \/ Construct
    \/ EvCall
    \/ DetermineDX
    \/ OperatorInit
    \/ OperatorCall

Spec == Init /\ [][Next]_vars

\* the same program, with the call that runs into the iteration cap among
\* the calls of the client
SpecCap == InitCap /\ [][Next]_vars

(* ---------------------------------------------------------------------- *)
(* Properties                                                             *)
(* ---------------------------------------------------------------------- *)

\* the latest operation was a __call__ that returned
Called == res.op = "__call__" /\ res.kind = "returned"

\* the evaluator is the one slide_tsunami or slump_tsunami returned with scale
\* left None, its dx still the one it was returned with
Calibrated ==
    /\ call.op \in {"slide_tsunami", "slump_tsunami"}
    /\ IsNone(call.a.scale)
    /\ call.a.alpha = 0
    /\ ~IsNone(ev)
    /\ Val(ev).dx = Some(Val(loc).dx)

\* C1 as stated: the evaluator returned by slide_tsunami or slump_tsunami with
\* scale left None, evaluated at (x0, y0), gives |z| within 0.05 (or 5 per
\* cent) of a3D.
C1_CalibratedAtOrigin ==
    (Called /\ Calibrated) =>
        \A i \in 1..Len(z) :
            (pts.x[i] = Val(ev).x0 /\ pts.y[i] = Val(ev).y0) =>
                Abs(Abs(z[i]) - Val(ev).a3D) <= Max(step, Val(ev).a3D \div 20)

\* C1 amended: the evaluator returned by slide_tsunami or slump_tsunami with
\* scale left None and alpha = 0, evaluated at (xstar, y0), xstar being the
\* point find_min selected, gives z <= 0 with |z| equal to a3D up to rounding
\* (one part in a thousand); at (x0, y0) it gives scale*g(x0), which is not
\* a3D.
C1_CalibratedAtXstar ==
    (Called /\ Calibrated) =>
        \A i \in 1..Len(z) :
            (pts.x[i] = Val(fm.xstar) /\ pts.y[i] = Val(ev).y0) =>
                /\ z[i] <= 0
                /\ Abs(Abs(z[i]) - Val(ev).a3D) <= 2 + Val(ev).a3D \div 1000

\* slide_tsunami(1000, 100, 20) has returned its evaluator, which was called
\* at the point find_min selected and at (x0, y0)
C1_Witness ==
    /\ Called /\ Calibrated
    /\ call.op = "slide_tsunami"
    /\ call.a.length = PyInt(1000) /\ call.a.depth = PyInt(100)
    /\ Len(z) = 2
    /\ pts.x[1] = Val(fm.xstar) /\ pts.x[1] # Val(ev).x0
    /\ pts.x[2] = Val(ev).x0
    /\ pts.y[1] = Val(ev).y0 /\ pts.y[2] = Val(ev).y0

\* C2: a __call__ with len(x) = len(y) = N raises nothing and returns N
\* values; z[i] is 0 where the evaluation of element i overflows and the
\* value of the formula for (x[i], y[i]) everywhere else.
C2_OverflowIsZero ==
    /\ (res.op = "__call__" /\ Len(pts.x) = Len(pts.y)) => res.kind = "returned"
    /\ Called =>
         /\ Len(z) = Len(pts.x)
         /\ \A i \in 1..Len(z) :
              z[i] = IF Overflows(Val(ev), pts.x[i], pts.y[i]) THEN 0
                     ELSE ZValue(Val(ev), pts.x[i], pts.y[i])

\* a __call__ returned two values, the first for an element that overflowed,
\* the second not zero
C2_Witness ==
    /\ Called
    /\ Len(z) = 2
    /\ Overflows(Val(ev), pts.x[1], pts.y[1])
    /\ ~Overflows(Val(ev), pts.x[2], pts.y[2])
    /\ z[1] = 0
    /\ z[2] # 0

\* the fields of the evaluator other than dx
Frozen(e) == [Val(e) EXCEPT !.dx = None]

\* C3: once a Double_gaussian is constructed its dx is never None, its fields
\* other than dx never change, and a step that changes dx is a determineDX.
C3_OnlyDxChanges ==
    /\ [](~IsNone(ev) => ~IsNone(Val(ev).dx))
    /\ [][~IsNone(ev) =>
            /\ ~IsNone(ev')
            /\ Frozen(ev') = Frozen(ev)
            /\ (ev' # ev => res'.op = "determineDX")
            /\ (res'.op = "__call__" => ev' = ev)]_vars

\* an evaluator constructed with dx = None was called after a determineDX
\* that changed its dx
C3_Witness ==
    /\ call.op = "Double_gaussian"
    /\ IsNone(call.a.dx)
    /\ Called
    /\ Len(z) > 0
    /\ Val(ev).dx # Some(DxFormula(call.a.wavelength, call.a.a3D,
                                   call.a.zsmall))

\* a number as a float of the same value
AsFloat(n) == [n EXCEPT !.int = FALSE]

OptAsFloat(n) == IF IsNone(n) THEN n ELSE Some(AsFloat(Val(n)))

\* C4 as stated: when slide_tsunami or slump_tsunami returns, the warnings
\* printed name each advisory parameter whose true (real-valued) ratio is out
\* of range, once, whatever the verbose flag and the type of the inputs.
C4_FlaggedIffOutOfRange ==
    /\ (res.op = "slide_tsunami" /\ res.kind = "returned") =>
         out = SlideOutOfRange(
                   [call.a EXCEPT !.length = AsFloat(@), !.depth = AsFloat(@)],
                   [Val(loc) EXCEPT !.thickness = AsFloat(@)])
    /\ (res.op = "slump_tsunami" /\ res.kind = "returned") =>
         out = SlumpOutOfRange(
                   [call.a EXCEPT !.length = AsFloat(@), !.depth = AsFloat(@)],
                   [Val(loc) EXCEPT !.thickness = AsFloat(@),
                                    !.radius = AsFloat(@)])

\* C5 as stated: find_min with kappad = 0 selects xstar within one step of x0
\* and returns the peak value 1.0 to within 0.05.
C5_SingleGaussianPeak ==
    (res.op = "find_min" /\ res.kind = "returned"
       /\ call.a.kappad = Flt(0) /\ call.a.wa > 0) =>
        /\ Abs(Val(fm.xstar) - call.a.x0) <= step
        /\ Abs(Val(res.v) - FxOne) <= step

\* C6 as stated: a dx passed to slide_tsunami or slump_tsunami is the dx
\* passed to find_min and the dx of the evaluator returned.
C6_GivenDxIsUsed ==
    (call.op \in {"slide_tsunami", "slump_tsunami"} /\ ~IsNone(call.a.dx)) =>
        /\ ~IsNone(fm) => fm.dx = Val(call.a.dx)
        /\ (res.op = call.op /\ res.kind = "returned") =>
               Val(ev).dx = call.a.dx

\* C7 as stated: the loop of find_min goes on after the derivative is first
\* non-positive, and short of the cap it stops only once the derivative is
\* non-negative again.
C7_StopsWhenNonNegativeAgain ==
    (~IsNone(fm) /\ ~LoopCond(fm) /\ fm.c < count_max /\ ~fm.deriv.nan) =>
        fm.deriv.v >= 0

\* C7 amended: x goes down from x0 + 50 by 0.05 an iteration; the loop goes
\* on only while no derivative was non-positive, so xstar is the x of the
\* first iteration whose derivative is non-positive, which is the last
\* iteration; the value returned is g(xstar).
C7_StopsAtFirstNonPositive ==
    ~IsNone(fm) =>
        /\ fm.x = fm.x0 + 50 * FxOne - fm.c * step
        /\ ~IsNone(fm.xstar) =>
               /\ FltLe0(fm.deriv)
               /\ Val(fm.xstar) = fm.x + step
               /\ ~LoopCond(fm)
        /\ (fm.c > 0 /\ FltLe0(fm.deriv)) => ~IsNone(fm.xstar)
        /\ (res.op = "find_min" /\ res.kind = "returned") =>
               res.v = Some(GShape(Val(fm.xstar), fm.x0, fm.wa, fm.kappad,
                                   fm.dx))

\* find_min returned after more than one iteration, the derivative of the
\* last one negative
C7_Witness ==
    /\ res.op = "find_min" /\ res.kind = "returned"
    /\ fm.c > 1
    /\ fm.deriv.v < 0
    /\ Val(fm.xstar) = fm.x + step

\* find_min has ended: it returned to the client or into slide_tsunami or
\* slump_tsunami, or it raised
FindMinEnded == ~IsNone(fm) /\ pc \in {"idle", "scale"}

\* C8: find_min ends after 1 to 1,000,000 iterations; it returns a value only
\* with xstar assigned, by the last iteration, whose derivative was <= 0; it
\* raises if xstar was never assigned, as it is when the derivative is
\* positive at the cap.
C8_NeverUnassigned ==
    /\ ~IsNone(fm) => fm.c \in 0..count_max
    /\ FindMinEnded =>
         /\ fm.c >= 1
         /\ IF IsNone(fm.xstar)
              THEN res = Raised(call.op, "UnboundLocalError")
              ELSE /\ FltLe0(fm.deriv)
                   /\ Val(fm.xstar) = fm.x + step
                   /\ res.err # "UnboundLocalError"
                   /\ call.op = "find_min" =>
                          res = Returned("find_min", Some(EtaStar(fm)))
         /\ (fm.c = count_max /\ FltGt0(fm.deriv)) =>
                res = Raised(call.op, "UnboundLocalError")

\* find_min ended with xstar never assigned
C8_Witness ==
    /\ FindMinEnded
    /\ call.op = "find_min"
    /\ fm.c >= 1
    /\ IsNone(fm.xstar)
    /\ res.kind = "raised"

\* slump_tsunami's arguments as floats of the same values
FloatSlumpArgs(a) ==
    [a EXCEPT !.length = AsFloat(@), !.depth = AsFloat(@),
              !.slope = AsFloat(@), !.thickness = OptAsFloat(@),
              !.radius = OptAsFloat(@)]

\* C9 as stated: slump_tsunami derives from int arguments what it derives
\* from the float arguments of the same values.
C9_TypeIndependent ==
    (call.op = "slump_tsunami" /\ pc # "start") =>
        LET t == SlumpLocals(FloatSlumpArgs(call.a))
        IN  IF t.err # "" THEN res = Raised("slump_tsunami", t.err)
            ELSE /\ ~IsNone(loc)
                 /\ Val(loc).a2D = t.a2D
                 /\ Val(loc).a3D = t.a3D
                 /\ Val(loc).dx = t.dx

\* C10 as stated: constructing an operator on a domain of numproc > 1 fails
\* the assertion; on a domain of numproc <= 1 it registers the operator and
\* sets logging to False.
C10_NotParallelSafe ==
    res.op = "Operator" =>
        IF domain.numproc > 1
          THEN res = Raised("Operator", "AssertionError")
          ELSE /\ res.kind = "returned"
               /\ Len(domain.operators) > 0
               /\ domain.operators[Len(domain.operators)].logging = Some(FALSE)

====
